---- MODULE Spec2Model ----
(***************************************************************************)
(* Model of .github/scripts/GitHub.py: get_reviewers_for_range,            *)
(* add_reviewers_to_pr and leave_pr_comment.                               *)
(*                                                                         *)
(* Text (tool output, commit identifiers, user names) is a sequence of     *)
(* one-character strings, so that re.findall, str.strip, str.splitlines    *)
(* and str.join are computed character by character as Python does.        *)
(***************************************************************************)
EXTENDS Integers, Sequences, FiniteSets, TLC

VARIABLES
    pc,            \* position in get_reviewers_for_range
    range_start,   \* argument
    range_end,     \* argument
    commits,       \* local: list of commit identifiers
    idx,           \* number of loop iterations completed
    raw_reviewers, \* local accumulator
    result,        \* returned value (meaningful when pc = "done")
    diags,         \* lines printed, in order
    gitCalls,      \* number of RunCmd("git", ...) invocations
    gitRet,        \* results handed back by RunCmd, in order
    invoked,       \* commit identifiers passed to RunPythonScript, in order
    toolRets,      \* results handed back by RunPythonScript, in order
    prpc,          \* position in add_reviewers_to_pr
    user_names,    \* the caller's list object (mutated in place)
    orig_names,    \* value of user_names when the call was made
    pr_author,     \* local of add_reviewers_to_pr
    requests,      \* HTTP requests made, in order
    responses,     \* HTTP responses received, in order
    prDiags,       \* lines printed by add_reviewers_to_pr
    raised         \* exception propagated to the caller, or "none"

rvars == <<pc, range_start, range_end, commits, idx, raw_reviewers, result,
           diags, gitCalls, gitRet, invoked, toolRets>>
pvars == <<prpc, user_names, orig_names, pr_author, requests, responses,
           prDiags, raised>>
vars == <<pc, range_start, range_end, commits, idx, raw_reviewers, result,
          diags, gitCalls, gitRet, invoked, toolRets,
          prpc, user_names, orig_names, pr_author, requests, responses,
          prDiags, raised>>

(***************************************************************************)
(* Bounds of the model.                                                    *)
(***************************************************************************)
MaxCommits == 2
MaxPieces == 1
MaxNames == 3

(***************************************************************************)
(* Text helpers.                                                           *)
(***************************************************************************)
NL == "\n"
None == "None"

\* characters str.strip() removes (of the alphabet used here)
Whitespace == {" ", NL, "\t"}

\* characters str.splitlines() breaks on (of the alphabet used here)
LineBreaks == {NL}

RECURSIVE Flatten(_)
Flatten(ss) == IF ss = <<>> THEN <<>> ELSE Head(ss) \o Flatten(Tail(ss))

RECURSIVE Join(_, _)
Join(sep, ss) ==
    IF ss = <<>> THEN <<>>
    ELSE IF Len(ss) = 1 THEN ss[1]
    ELSE ss[1] \o sep \o Join(sep, Tail(ss))

\* ', '.join(xs)
JoinComma(ss) == Join(<<",", " ">>, ss)

\* s[:n]
Take(s, n) == SubSeq(s, 1, IF Len(s) < n THEN Len(s) ELSE n)

RECURSIVE LStrip(_)
LStrip(s) ==
    IF s = <<>> THEN s
    ELSE IF Head(s) \in Whitespace THEN LStrip(Tail(s)) ELSE s

RECURSIVE RStrip(_)
RStrip(s) ==
    IF s = <<>> THEN s
    ELSE IF s[Len(s)] \in Whitespace THEN RStrip(SubSeq(s, 1, Len(s) - 1))
    ELSE s

StripIdentity(s) == s

\* str.strip()
Strip(s) == RStrip(LStrip(s))

\* index of the first "]" at or after p that "(.*?)" can reach from p
\* ("." does not match a newline), or 0
RECURSIVE CloseFrom(_, _)
CloseFrom(s, p) ==
    IF p > Len(s) THEN 0
    ELSE IF s[p] = "]" THEN p
    ELSE IF s[p] = NL THEN 0
    ELSE CloseFrom(s, p + 1)

\* re.findall(r"\[(.*?)\]", s), scanning from position p
RECURSIVE FindAllFrom(_, _)
FindAllFrom(s, p) ==
    IF p > Len(s) THEN <<>>
    ELSE IF s[p] = "[" /\ CloseFrom(s, p + 1) # 0
         THEN <<SubSeq(s, p + 1, CloseFrom(s, p + 1) - 1)>>
              \o FindAllFrom(s, CloseFrom(s, p + 1) + 1)
         ELSE FindAllFrom(s, p + 1)

FindAll(s) == FindAllFrom(s, 1)

RECURSIVE SplitLinesFrom(_, _, _)
SplitLinesFrom(s, p, cur) ==
    IF p > Len(s) THEN (IF cur = <<>> THEN <<>> ELSE <<cur>>)
    ELSE IF s[p] \in LineBreaks
         THEN <<cur>> \o SplitLinesFrom(s, p + 1, <<>>)
         ELSE SplitLinesFrom(s, p + 1, Append(cur, s[p]))

\* str.split("\n") instead of str.splitlines(): the empty text gives [""]
SplitKeepEmpty(s) == IF s = <<>> THEN <<<<>>>> ELSE SplitLinesFrom(s, 1, <<>>)

\* str.splitlines()
SplitLines(s) == SplitLinesFrom(s, 1, <<>>)

Contains(seq, x) == \E i \in 1..Len(seq) : seq[i] = x

RECURSIVE MapStrip(_)
MapStrip(ss) == IF ss = <<>> THEN <<>> ELSE <<Strip(Head(ss))>> \o MapStrip(Tail(ss))

RECURSIVE FromKeysAcc(_, _)
FromKeysAcc(ss, acc) ==
    IF ss = <<>> THEN acc
    ELSE FromKeysAcc(Tail(ss),
                     IF Contains(acc, Head(ss)) THEN acc ELSE Append(acc, Head(ss)))

\* keeps the last occurrence of each key instead of the first
RECURSIVE FromKeysLast(_)
FromKeysLast(ss) ==
    IF ss = <<>> THEN <<>>
    ELSE IF Contains(Tail(ss), Head(ss)) THEN FromKeysLast(Tail(ss))
    ELSE <<Head(ss)>> \o FromKeysLast(Tail(ss))

\* list(OrderedDict.fromkeys(ss))
FromKeys(ss) == FromKeysAcc(ss, <<>>)

(***************************************************************************)
(* Inputs: revision references, the outputs of git and of the maintainer   *)
(* tool.                                                                   *)
(***************************************************************************)
Master == <<"m", "a", "s", "t", "e", "r">>
ShaA == <<"0", "1", "2", "3", "4", "5", "6", "7">>
ShaB == <<"B">>
ShaC == <<"C">>

Refs == {Master, ShaA}

\* git log prints the commits of a range newest first, none twice: the
\* lists are the leading parts of two histories
Histories == {<<ShaA, ShaB, ShaC>>, <<ShaC, ShaA, ShaB>>}

CommitLists ==
    {SubSeq(h, 1, n) : h \in Histories, n \in 0..MaxCommits}

ErrText == <<"e", "r", "r">>

\* (exit status, captured output) of RunCmd("git", "log ...")
GitResults ==
    {<<0, Join(<<NL>>, l)>> : l \in CommitLists}
    \cup {<<128, ErrText>>, <<1, <<>>>>}

\* fragments of maintainer-tool output: one token; two tokens; the same two
\* padded and in the other order; brackets around a newline; a nested "["
Pieces == {<<"[", "a", "]">>,
           <<"[", "A", "]", "[", "a", "]">>,
           <<"[", " ", "a", " ", "]", "[", "A", "]">>,
           <<"[", NL, "]">>,
           <<"[", "[", "a", "]">>}

\* outputs made of at most MaxPieces fragments
ToolOutputs ==
    {Flatten(ps) : ps \in UNION {[1..n -> Pieces] : n \in 0..MaxPieces}}

\* (exit status, captured output) of RunPythonScript(GetMaintainer.py, "-g sha")
ToolResults ==
    {<<0, o>> : o \in ToolOutputs}
    \cup {<<1, <<"[", "a", "]">>>>, <<2, ErrText>>}

(***************************************************************************)
(* get_reviewers_for_range                                                 *)
(***************************************************************************)
Diag(level, title, arg, body) ==
    [level |-> level, title |-> title, arg |-> arg, body |-> body]

CommitLookupErrorNoOutput(cmd_ret, out) ==
    Diag("error", "Commit Lookup Error!", cmd_ret, <<>>)

CommitLookupError(cmd_ret, out) ==
    Diag("error", "Commit Lookup Error!", cmd_ret, out)

ReviewerLookupError(cmd_ret, out) ==
    Diag("error", "Reviewer Lookup Error!", cmd_ret, out)

CommitReviewers(commit_sha, matches) ==
    Diag("debug", "Commit Reviewer(s)", Take(commit_sha, 7), JoinComma(matches))

TotalReviewerSet(reviewers) ==
    Diag("debug", "Total Reviewer Set", None, JoinComma(reviewers))

NeverSingle(rs, re) == FALSE

\* if range_start == range_end
SingleCommit(rs, re) == rs = re

NeverFailed(cmd_ret) == FALSE

\* if cmd_ret != 0
CmdFailed(cmd_ret) == cmd_ret # 0

NeverEmpty(matches) == FALSE

\* if not matches
NoMatches(matches) == matches = <<>>

\* reviewers = list(OrderedDict.fromkeys([r.strip() for r in raw_reviewers]))
Reviewers(raw) == FromKeys(MapStrip(raw))

\* the for loop over cs with n iterations done and accumulator raw: either
\* more iterations remain, or the loop is exhausted and lines 110-114 run
LoopOrReturn(cs, n, raw, ds) ==
    IF n < Len(cs)
    THEN /\ pc' = "loop"
         /\ result' = result
         /\ diags' = ds
    ELSE /\ pc' = "done"
         /\ result' = Reviewers(raw)
         /\ diags' = Append(ds, TotalReviewerSet(Reviewers(raw)))

Call ==
    /\ pc = "idle"
    /\ \E rs \in Refs, re \in Refs :
        /\ range_start' = rs
        /\ range_end' = re
        /\ IF SingleCommit(rs, re)
           THEN /\ commits' = <<rs>>
                /\ LoopOrReturn(<<rs>>, 0, <<>>, diags)
           ELSE /\ commits' = commits
                /\ pc' = "git"
                /\ UNCHANGED <<result, diags>>
    /\ UNCHANGED <<idx, raw_reviewers, gitCalls, gitRet, invoked, toolRets>>
    /\ UNCHANGED pvars

GitLog ==
    /\ pc = "git"
    /\ \E r \in GitResults :
        /\ gitCalls' = gitCalls + 1
        /\ gitRet' = Append(gitRet, r)
        /\ IF CmdFailed(r[1])
           THEN /\ diags' = Append(diags, CommitLookupError(r[1], r[2]))
                /\ result' = <<>>
                /\ pc' = "done"
                /\ commits' = commits
           ELSE /\ commits' = SplitLines(r[2])
                /\ LoopOrReturn(SplitLines(r[2]), 0, <<>>, diags)
    /\ UNCHANGED <<range_start, range_end, idx, raw_reviewers, invoked, toolRets>>
    /\ UNCHANGED pvars

InvokeMaintainer ==
    /\ pc = "loop"
    /\ idx < Len(commits)
    /\ \E r \in ToolResults :
        LET commit_sha == commits[idx + 1]
            matches == FindAll(r[2])
        IN  /\ invoked' = Append(invoked, commit_sha)
            /\ toolRets' = Append(toolRets, r)
            /\ IF CmdFailed(r[1])
               THEN /\ diags' = Append(diags, ReviewerLookupError(r[1], r[2]))
                    /\ result' = <<>>
                    /\ pc' = "done"
                    /\ UNCHANGED <<idx, raw_reviewers>>
               ELSE IF NoMatches(matches)
               THEN /\ result' = <<>>
                    /\ pc' = "done"
                    /\ UNCHANGED <<idx, raw_reviewers, diags>>
               ELSE /\ idx' = idx + 1
                    /\ raw_reviewers' = raw_reviewers \o matches
                    /\ LoopOrReturn(commits, idx + 1, raw_reviewers \o matches,
                                    Append(diags, CommitReviewers(commit_sha, matches)))
    /\ UNCHANGED <<range_start, range_end, commits, gitCalls, gitRet>>
    /\ UNCHANGED pvars

(***************************************************************************)
(* add_reviewers_to_pr and leave_pr_comment                                *)
(***************************************************************************)
Users == {<<"a">>, <<"b">>, <<"A">>}

\* candidate lists handed to add_reviewers_to_pr
NameLists == UNION {[1..n -> Users] : n \in 0..MaxNames}

\* response to GET /repos/{owner}/{repo}/pulls/{pr_number}
GetResponses ==
    {[status |-> 200, reason |-> "OK", login |-> l]
        : l \in {<<"a">>, <<"a", " ">>, <<" ", "b">>, <<"c">>}}
    \cup {[status |-> 202, reason |-> "Accepted", login |-> <<"a">>],
          [status |-> 404, reason |-> "Not Found", login |-> None]}

CollaboratorsPhrase == "Reviews may only be requested from collaborators"

\* the "message" of a response body, as a sequence of phrases
CollaboratorsMessage ==
    <<CollaboratorsPhrase, ". One or more of the users or teams you specified is not a collaborator of the repository.">>
ValidationMessage == <<"Validation Failed">>
NotFoundMessage == <<"Not Found">>

\* response to POST .../pulls/{pr_number}/requested_reviewers
PostResponses ==
    {[status |-> 201, reason |-> "Created", message |-> <<>>],
     [status |-> 404, reason |-> "Not Found", message |-> NotFoundMessage],
     [status |-> 422, reason |-> "Unprocessable Entity", message |-> CollaboratorsMessage],
     [status |-> 422, reason |-> "Unprocessable Entity", message |-> ValidationMessage]}

\* response to POST .../issues/{pr_number}/comments
CommentResponses ==
    {[status |-> 201, reason |-> "Created", message |-> <<>>],
     [status |-> 403, reason |-> "Forbidden", message |-> <<"Resource not accessible by integration">>]}

Request(method, url, data) == [method |-> method, url |-> url, data |-> data]

\* response.raise_for_status() raises HTTPError
RaiseForStatus(status) == status >= 400 /\ status < 600

RECURSIVE RemoveFirst(_, _)
\* list.remove(x), x being in the list
RemoveFirst(names, x) ==
    IF names = <<>> THEN <<>>
    ELSE IF Head(names) = x THEN Tail(names)
    ELSE <<Head(names)>> \o RemoveFirst(Tail(names), x)

\* "if" in place of "while": one occurrence removed
RemoveOnce(names, author) ==
    IF Contains(names, author) THEN RemoveFirst(names, author) ELSE names

RECURSIVE RemoveAuthor(_, _)
\* while pr_author in user_names: user_names.remove(pr_author)
RemoveAuthor(names, author) ==
    IF Contains(names, author)
    THEN RemoveAuthor(RemoveFirst(names, author), author)
    ELSE names

Any422(status, message) == status = 422

\* status_code == 422 and "Reviews may only ..." in response.json().get("message")
NotCollaborator(status, message) ==
    status = 422 /\ Contains(message, CollaboratorsPhrase)

CommentBody(names) ==
    <<"WARNING: Cannot add reviewers", "Users requested:", JoinComma(names)>>

PRCall ==
    /\ prpc = "idle"
    /\ \E names \in NameLists :
        /\ user_names' = names
        /\ orig_names' = names
    /\ prpc' = "get"
    /\ UNCHANGED <<pr_author, requests, responses, prDiags, raised>>
    /\ UNCHANGED rvars

GetAuthor ==
    /\ prpc = "get"
    /\ \E resp \in GetResponses :
        /\ requests' = Append(requests, Request("GET", "pulls", None))
        /\ responses' = Append(responses, resp)
        /\ IF resp.status # 200
           THEN /\ prDiags' = Append(prDiags,
                        Diag("error", "HTTP Error!", resp.reason, <<>>))
                /\ prpc' = "done"
                /\ UNCHANGED <<pr_author, user_names>>
           ELSE /\ pr_author' = Strip(resp.login)
                /\ user_names' = RemoveAuthor(user_names, Strip(resp.login))
                /\ prpc' = "post"
                /\ UNCHANGED prDiags
    /\ UNCHANGED <<orig_names, raised>>
    /\ UNCHANGED rvars

PostReviewers ==
    /\ prpc = "post"
    /\ \E resp \in PostResponses :
        /\ requests' = Append(requests,
                              Request("POST", "requested_reviewers", user_names))
        /\ responses' = Append(responses, resp)
        /\ IF ~RaiseForStatus(resp.status)
           THEN /\ prpc' = "done"
                /\ UNCHANGED prDiags
           ELSE IF NotCollaborator(resp.status, resp.message)
           THEN /\ prDiags' = Append(prDiags,
                        Diag("error", "User is not a Collaborator!", None, resp.message))
                /\ prpc' = "comment"
           ELSE IF resp.status = 422
           THEN /\ prDiags' = Append(prDiags,
                        Diag("error", "Invalid Request!", None, <<>>))
                /\ prpc' = "done"
           ELSE /\ prpc' = "done"
                /\ UNCHANGED prDiags
    /\ UNCHANGED <<user_names, orig_names, pr_author, raised>>
    /\ UNCHANGED rvars

\* leave_pr_comment, called from the except clause of add_reviewers_to_pr
LeavePrComment ==
    /\ prpc = "comment"
    /\ \E resp \in CommentResponses :
        /\ requests' = Append(requests,
                              Request("POST", "comments", CommentBody(user_names)))
        /\ responses' = Append(responses, resp)
        /\ raised' = IF RaiseForStatus(resp.status) THEN "HTTPError" ELSE "none"
    /\ prpc' = "done"
    /\ UNCHANGED <<user_names, orig_names, pr_author, prDiags>>
    /\ UNCHANGED rvars

Init ==
    /\ pc = "idle"
    /\ range_start = <<>>
    /\ range_end = <<>>
    /\ commits = <<>>
    /\ idx = 0
    /\ raw_reviewers = <<>>
    /\ result = <<>>
    /\ diags = <<>>
    /\ gitCalls = 0
    /\ gitRet = <<>>
    /\ invoked = <<>>
    /\ toolRets = <<>>
    /\ prpc = "idle"
    /\ user_names = <<>>
    /\ orig_names = <<>>
    /\ pr_author = None
    /\ requests = <<>>
    /\ responses = <<>>
    /\ prDiags = <<>>
    /\ raised = "none"

Next == Call \/ GitLog \/ InvokeMaintainer

Spec == Init /\ [][Next]_vars

NextPR == PRCall \/ GetAuthor \/ PostReviewers \/ LeavePrComment

SpecPR == Init /\ [][NextPR]_vars

(***************************************************************************)
(* Vocabulary of the properties, stated without the operators the model    *)
(* of the code uses.                                                       *)
(***************************************************************************)
\* u is t without its leading and trailing whitespace
IsTrimOf(u, t) ==
    \E i \in 1..(Len(t) + 1), j \in 0..Len(t) :
        /\ u = SubSeq(t, i, j)
        /\ \A k \in 1..(i - 1) : t[k] \in Whitespace
        /\ \A k \in (j + 1)..Len(t) : t[k] \in Whitespace
        /\ i <= j => (t[i] \notin Whitespace /\ t[j] \notin Whitespace)

Trimmed(t) ==
    CHOOSE u \in {SubSeq(t, i, j) : i \in 1..(Len(t) + 1), j \in 0..Len(t)} :
        IsTrimOf(u, t)

\* the text holds a "[", later a "]", and no newline between the two
HasBracketedToken(s) ==
    \E i \in 1..Len(s), j \in 1..Len(s) :
        /\ i < j
        /\ s[i] = "["
        /\ s[j] = "]"
        /\ \A k \in (i + 1)..(j - 1) : s[k] # NL

LookupFailed(r) == r[1] # 0 \/ ~HasBracketedToken(r[2])

GitFailed == gitRet # <<>> /\ gitRet[1][1] # 0

IsErrorDiag(d) == d.level = "error"

\* position of the first occurrence of x in seq (x occurs in seq)
FirstIndex(seq, x) == CHOOSE i \in 1..Len(seq) : seq[i] = x /\ \A k \in 1..(i - 1) : seq[k] # x

RECURSIVE TokensUpTo(_)
\* the trimmed tokens of the first n tool outputs, in commit order and,
\* within a commit, in order of appearance
TokensUpTo(n) ==
    IF n = 0 THEN <<>>
    ELSE TokensUpTo(n - 1)
         \o [k \in 1..Len(FindAll(toolRets[n][2])) |-> Trimmed(FindAll(toolRets[n][2])[k])]

AllSucceeded ==
    /\ pc = "done"
    /\ ~GitFailed
    /\ Len(toolRets) = Len(commits)
    /\ \A k \in 1..Len(toolRets) : ~LookupFailed(toolRets[k])

(***************************************************************************)
(* Properties of get_reviewers_for_range (specification Spec)              *)
(***************************************************************************)

\* C1: if the maintainer-tool invocation for some commit returned a non-zero
\* status, or its output holds no bracketed token, the call returns the
\* empty sequence, whatever was extracted from the commits before it.
C1_FailFastNoPartialResult ==
    pc = "done" =>
        \A k \in 1..Len(toolRets) :
            LookupFailed(toolRets[k]) => result = <<>>

\* a second commit failed after the first one had yielded reviewers
C1_Witness ==
    /\ pc = "done"
    /\ Len(toolRets) = 2
    /\ raw_reviewers # <<>>
    /\ LookupFailed(toolRets[2])
    /\ result = <<>>

\* C2: with range_start != range_end, when git log returns a non-zero
\* status the call returns the empty sequence, prints a diagnostic holding
\* the exit code and the captured output, and the maintainer tool is never
\* invoked.
C2_GitFailure ==
    (range_start # range_end /\ GitFailed) =>
        /\ pc = "done"
        /\ result = <<>>
        /\ invoked = <<>>
        /\ \E i \in 1..Len(diags) :
            /\ IsErrorDiag(diags[i])
            /\ diags[i].arg = gitRet[1][1]
            /\ diags[i].body = gitRet[1][2]

C2_Witness ==
    /\ pc = "done"
    /\ range_start # range_end
    /\ gitRet = <<<<128, ErrText>>>>

\* C3: the returned sequence holds no identifier twice, two identifiers
\* being the same when they are equal strings after trimming; identifiers
\* that differ only in case are different.
C3_NoDuplicates ==
    pc = "done" =>
        \A i, j \in 1..Len(result) :
            i # j => Trimmed(result[i]) # Trimmed(result[j])

\* "[a]" and "[ a ]" were both extracted and count once; "A" is kept apart
C3_Witness ==
    /\ pc = "done"
    /\ Contains(raw_reviewers, <<"a">>)
    /\ Contains(raw_reviewers, <<" ", "a", " ">>)
    /\ Contains(raw_reviewers, <<"A">>)
    /\ Len(result) = 2

\* C4: when every commit's lookup succeeds with at least one token, the
\* result is the first-occurrence-order deduplication of the trimmed tokens
\* in commit order: every trimmed token is in the result, nothing else is,
\* nothing is there twice, and x precedes y exactly when the first
\* occurrence of x precedes the first occurrence of y.
C4_FirstOccurrenceOrder ==
    AllSucceeded =>
        LET tokens == TokensUpTo(Len(toolRets))
        IN  /\ \A k \in 1..Len(tokens) : Contains(result, tokens[k])
            /\ \A i \in 1..Len(result) : Contains(tokens, result[i])
            /\ \A i, j \in 1..Len(result) : i # j => result[i] # result[j]
            /\ \A i, j \in 1..Len(result) :
                i < j <=> FirstIndex(tokens, result[i]) < FirstIndex(tokens, result[j])

\* two commits, the second repeating the reviewers of the first in the
\* opposite order
C4_Witness ==
    /\ AllSucceeded
    /\ Len(toolRets) = 2
    /\ toolRets[1][2] = <<"[", "A", "]", "[", "a", "]">>
    /\ toolRets[2][2] = <<"[", " ", "a", " ", "]", "[", "A", "]">>
    /\ result = <<<<"A">>, <<"a">>>>

\* C5: when range_start equals range_end, git is never invoked and the
\* maintainer tool is invoked exactly once, for the commit named by that
\* identifier.
C5_SingleCommit ==
    (pc # "idle" /\ range_start = range_end) =>
        /\ gitCalls = 0
        /\ gitRet = <<>>
        /\ pc = "loop" => invoked = <<>>
        /\ pc = "done" => invoked = <<range_start>>

C5_Witness ==
    /\ pc = "done"
    /\ range_start = range_end
    /\ invoked = <<ShaA>>
    /\ result # <<>>

\* C6: every failure mode (range lookup failure, a per-commit lookup
\* failure, no bracketed token for a commit) returns the empty sequence
\* together with an error diagnostic.
C6_EveryFailureDiagnosed ==
    (pc = "done" /\ (GitFailed \/ \E k \in 1..Len(toolRets) : LookupFailed(toolRets[k]))) =>
        /\ result = <<>>
        /\ \E i \in 1..Len(diags) : IsErrorDiag(diags[i])

\* C9: the maintainer-tool invocations are a prefix of the commit list, in
\* its order, made one at a time; the prefix is the whole list when every
\* commit succeeds and otherwise ends at the first commit whose invocation
\* fails or yields no token.
C9_PrefixState ==
    /\ Len(invoked) = Len(toolRets)
    /\ Len(invoked) <= Len(commits)
    /\ invoked = SubSeq(commits, 1, Len(invoked))
    /\ \A k \in 1..(Len(toolRets) - 1) : ~LookupFailed(toolRets[k])
    /\ (pc = "done" /\ ~GitFailed) =>
        \/ Len(invoked) = Len(commits) /\ \A k \in 1..Len(toolRets) : ~LookupFailed(toolRets[k])
        \/ invoked # <<>> /\ LookupFailed(toolRets[Len(toolRets)])

C9_OneAtATime ==
    invoked' # invoked =>
        /\ Len(invoked) < Len(commits)
        /\ invoked' = Append(invoked, commits[Len(invoked) + 1])
        /\ commits' = commits
        /\ \A k \in 1..Len(toolRets) : ~LookupFailed(toolRets[k])

C9_InvocationsArePrefix == [](C9_PrefixState) /\ [][C9_OneAtATime]_vars

\* the first of two commits failed and the second was never invoked
C9_Witness ==
    /\ pc = "done"
    /\ Len(commits) = 2
    /\ invoked = <<commits[1]>>
    /\ LookupFailed(toolRets[1])

\* C10: with range_start != range_end and git log succeeding with empty
\* output, the maintainer tool is invoked zero times, the "Total Reviewer
\* Set" diagnostic is printed, no error diagnostic is, and the empty
\* sequence is returned.
C10_EmptyRange ==
    (range_start # range_end /\ gitRet = <<<<0, <<>>>>>>) =>
        /\ pc = "done"
        /\ invoked = <<>>
        /\ result = <<>>
        /\ \E i \in 1..Len(diags) : diags[i].title = "Total Reviewer Set"
        /\ \A i \in 1..Len(diags) : ~IsErrorDiag(diags[i])

C10_Witness ==
    /\ pc = "done"
    /\ range_start # range_end
    /\ gitRet = <<<<0, <<>>>>>>
    /\ result = <<>>
    /\ commits = <<>>

(***************************************************************************)
(* Properties of add_reviewers_to_pr (specification SpecPR)                *)
(***************************************************************************)
IsReviewerPost(r) == r.method = "POST" /\ r.url = "requested_reviewers"
IsCommentPost(r) == r.method = "POST" /\ r.url = "comments"

ReviewerPostAnswered422 ==
    /\ prpc = "done"
    /\ Len(requests) >= 2
    /\ IsReviewerPost(requests[2])
    /\ responses[2].status = 422

CollaboratorsAnswer ==
    \E i \in 1..Len(responses[2].message) :
        responses[2].message[i] = CollaboratorsPhrase

\* C7: the reviewer-request POST is made only after the GET returned 200;
\* the list it sends holds no occurrence of the PR author's login and keeps
\* every other candidate in the original order; when the GET fails no POST
\* is made and the candidate list is unchanged.
C7_AuthorRemovedBeforePost ==
    /\ \A n \in 1..Len(requests) :
        IsReviewerPost(requests[n]) =>
            /\ n = 2
            /\ requests[1].method = "GET"
            /\ responses[1].status = 200
            /\ pr_author = Trimmed(responses[1].login)
            /\ \A k \in 1..Len(requests[n].data) : requests[n].data[k] # pr_author
            /\ requests[n].data = SelectSeq(orig_names, LAMBDA x : x # pr_author)
    /\ (responses # <<>> /\ responses[1].status # 200) =>
            /\ prpc = "done"
            /\ Len(requests) = 1
            /\ user_names = orig_names

\* the author was listed twice among other candidates
C7_Witness ==
    /\ Len(requests) >= 2
    /\ IsReviewerPost(requests[2])
    /\ orig_names = <<<<"a">>, <<"b">>, <<"a">>>>
    /\ responses[1].login = <<"a", " ">>
    /\ requests[2].data = <<<<"b">>>>

====
